---- MODULE Spec2Model ----
(***************************************************************************)
(* A model of dynarmic-rs: the software MMU of src/src/memory.rs (typed    *)
(* little-endian primitives, page spans, the BTreeMap address space) and   *)
(* the callback bridge of src/src/lib.rs (tick counter, supervisor calls,  *)
(* JitContext guards, the life of an Executor) and the coprocessor table   *)
(* of src/dynarmic-sys/src/coprocessor.rs.                                 *)
(*                                                                         *)
(* Representation choices:                                                 *)
(*  - A scalar value of SIZE n is the sequence of its n base-256 digits,   *)
(*    most significant digit first (0xE7FE is <<231, 254>>); a 2-wide      *)
(*    array is the pair of its element values.  TLC integers are 32 bits   *)
(*    wide, so a u64 cannot be one TLC integer.                            *)
(*  - A byte slice (window) is a sequence of bytes, index 1 = b[0].        *)
(*  - A backing store Box<[u8]> of length len is [len, nz]: nz maps the    *)
(*    offsets holding a non-zero byte to that byte; all others hold 0.     *)
(*  - x & !m for a mask m = 2^k - 1 is x - (x % (m + 1)); x >> k is        *)
(*    x \div 2^k; x & m is x % (m + 1).                                    *)
(***************************************************************************)
EXTENDS Integers, Sequences, FiniteSets, TLC

\* --------------------------------------------------------------- bounds
\* Spans are registered at, and accesses made to, the pages 0..MaxPage.
MaxPage == 1
\* Spans are registered with 0..MaxSize pages.
MaxSize == 2
\* Number of write calls in one behaviour.
MaxWrites == 1
\* Width in bits of the tick counter of the model; the crate's is a u64,
\* which no TLC integer holds.
TickBits == 4
\* The codec is applied to values made from the seeds 0..MaxSeed.
MaxSeed == 3
\* Executors constructed, one after the other, in one behaviour.
MaxExecutors == 2
\* Guards (Ref, RefMut) of one JitContext held at the same time.
MaxViews == 2
\* Coprocessor cells hold the words 0..MaxWord.
MaxWord == 1
\* Executions of one compiled deferred callback.
MaxCalls == 1

\* ------------------------------------------------------------ constants
PAGE_BITS == 12

PAGE_SIZE == 2 ^ PAGE_BITS

PAGE_LOWER_MASK == PAGE_SIZE - 1

\* -------------------------------------------------------- Primitive codec
Prims == {"u8", "u16", "u32", "u64", "u8x2", "u16x2", "u32x2", "u64x2"}

Scalars == {"u8", "u16", "u32", "u64"}

\* element type of a 2-wide array [T; 2]
Elem(T) ==
  CASE T = "u8x2" -> "u8"
    [] T = "u16x2" -> "u16"
    [] T = "u32x2" -> "u32"
    [] T = "u64x2" -> "u64"

\* std::mem::size_of::<Self>()
ScalarSize(T) ==
  CASE T = "u8" -> 1
    [] T = "u16" -> 2
    [] T = "u32" -> 4
    [] T = "u64" -> 8

SIZE(T) == IF T \in Scalars THEN ScalarSize(T) ELSE 2 * ScalarSize(Elem(T))

ALIGN(T) == SIZE(T) - 1

\* b[from..to] of a Rust slice (0-based, to exclusive) as a window
Slice(b, from, to) == [i \in 1..(to - from) |-> b[from + i]]

\* byte i of a scalar value, counted from the least-significant byte
ByteOf(v, i) == v[Len(v) - i]

\* a decoder that takes the window as big-endian
ScalarRead_BigEndian(T, b) == [j \in 1..ScalarSize(T) |-> b[j]]

\* LE::read_uN(b) / b[0]: digit j (most significant first) is b[n-j]
ScalarRead(T, b) == [j \in 1..ScalarSize(T) |-> b[ScalarSize(T) - j + 1]]

\* LE::write_uN(b, v) / b[0] = v: the bytes stored into b[0..n]
ScalarWrite(T, v) == [i \in 1..ScalarSize(T) |-> ByteOf(v, i - 1)]

\* Primitive::read
PrimRead(T, b) ==
  IF T \in Scalars
  THEN ScalarRead(T, b)
  ELSE LET E == Elem(T)
           n == ScalarSize(E)
       IN  << ScalarRead(E, Slice(b, 0, n)), ScalarRead(E, Slice(b, n, 2 * n)) >>

\* an array encoder that stores the elements in reverse index order
PrimWrite_Reversed(T, v) ==
  IF T \in Scalars
  THEN ScalarWrite(T, v)
  ELSE ScalarWrite(Elem(T), v[2]) \o ScalarWrite(Elem(T), v[1])

\* Primitive::write: the SIZE bytes left in the window
PrimWrite(T, v) ==
  IF T \in Scalars
  THEN ScalarWrite(T, v)
  ELSE ScalarWrite(Elem(T), v[1]) \o ScalarWrite(Elem(T), v[2])

\* ------------------------------------------------------------ outcomes
\* Option::None
NoneVal == [tag |-> "None"]

\* a call that returned value v (v = "unit" for a call returning ())
Ok(v) == [tag |-> "ok", val |-> v]

\* a call that panicked with message m and never returned
Panic(m) == [tag |-> "panic", msg |-> m]

\* a call whose MMIO handler has been entered and has not returned yet
Pending == [tag |-> "pending"]

\* ------------------------------------------------------------ Page spans
\* a backing whose first byte is left as the allocator gave it
ZeroBacking_Uninit(n) == [len |-> n, nz |-> [o \in {o \in {0} : o < n} |-> 255]]

\* vec![0u8; n].into_boxed_slice()
ZeroBacking(n) == [len |-> n, nz |-> [o \in {} |-> 0]]

\* bytes[o]
ByteAt(b, o) == IF o \in DOMAIN b.nz THEN b.nz[o] ELSE 0

\* &bytes[off..off + n]
Window(b, off, n) == [i \in 1..n |-> ByteAt(b, off + i - 1)]

\* the backing after copying window w over bytes[off..off + Len(w)]
SetBytes(b, off, w) ==
  LET W == off..(off + Len(w) - 1)
      val(o) == IF o \in W THEN w[o - off + 1] ELSE ByteAt(b, o)
      D == {o \in (DOMAIN b.nz) \cup W : val(o) # 0}
  IN  [len |-> b.len, nz |-> [o \in D |-> val(o)]]

\* PageSpan { size, kind: Normal { backing }, read_only }
NormalSpan(n, ro) ==
  [size |-> n, kind |-> "Normal", backing |-> ZeroBacking(n * PAGE_SIZE),
   handler |-> "-", read_only |-> ro]

\* PageSpan { size, kind: MMIO { handler: Some(h) }, read_only }
MMIOSpan(n, ro) ==
  [size |-> n, kind |-> "MMIO", backing |-> ZeroBacking(0),
   handler |-> "Some", read_only |-> ro]

\* offset & !T::ALIGN
AlignDown(offset, T) == offset - (offset % (ALIGN(T) + 1))

\* a guard that hands the handler out whether or not it is checked in
TakeHandler_Unchecked(span) == TRUE

\* handler.take().expect(..) succeeds
TakeHandler(span) == span.handler = "Some"

\* PageSpanKind::read, up to the point where it returns, panics or enters the
\* MMIO handler: [span |-> the span afterwards, res |-> outcome, off |-> offset]
KindRead(span, T, offset) ==
  LET off == AlignDown(offset, T) IN
  IF span.kind = "Normal"
  THEN IF off + SIZE(T) > span.backing.len
       THEN \* the slice panics while the Cell holds the replacement Box::new([])
            [span |-> [span EXCEPT !.backing = ZeroBacking(0)],
             res |-> Panic("slice index out of range"), off |-> off]
       ELSE [span |-> span,
             res |-> Ok(PrimRead(T, Window(span.backing, off, SIZE(T)))),
             off |-> off]
  ELSE IF ~TakeHandler(span)
       THEN [span |-> span, res |-> Panic("Attempt to reentrantly read IO page"),
             off |-> off]
       ELSE IF SIZE(T) > 8
            THEN \* &mut src[..T::SIZE] of [0u8; 8] panics; h is dropped
                 [span |-> [span EXCEPT !.handler = "None"],
                  res |-> Panic("slice index out of range"), off |-> off]
            ELSE [span |-> [span EXCEPT !.handler = "None"], res |-> Pending,
                  off |-> off]

\* PageSpanKind::write, likewise
KindWrite(span, T, offset, value) ==
  LET off == AlignDown(offset, T) IN
  IF span.kind = "Normal"
  THEN IF off + SIZE(T) > span.backing.len
       THEN [span |-> [span EXCEPT !.backing = ZeroBacking(0)],
             res |-> Panic("slice index out of range"), off |-> off]
       ELSE [span |-> [span EXCEPT
                         !.backing = SetBytes(span.backing, off, PrimWrite(T, value))],
             res |-> Ok("unit"), off |-> off]
  ELSE IF ~TakeHandler(span)
       THEN [span |-> span, res |-> Panic("Attempt to reentrantly write IO page"),
             off |-> off]
       ELSE IF SIZE(T) > 8
            THEN [span |-> [span EXCEPT !.handler = "None"],
                  res |-> Panic("slice index out of range"), off |-> off]
            ELSE [span |-> [span EXCEPT !.handler = "None"], res |-> Pending,
                  off |-> off]

\* ---------------------------------------------------------- Address space
\* the greatest key of the BTreeMap that is <= page: range(0..=page).rev().next()
Floor(pg, page) ==
  LET below == {k \in DOMAIN pg : k <= page}
  IN  IF below = {} THEN NoneVal
      ELSE [tag |-> "Some", key |-> CHOOSE k \in below : \A j \in below : j <= k]

\* a lookup whose bound check takes the page just past the span's end
lookup_OffByOne(pg, page) ==
  LET f == Floor(pg, page) IN
  IF f = NoneVal THEN NoneVal
  ELSE IF f.key + pg[f.key].size >= page
       THEN [tag |-> "Some", item |-> f.key, offset |-> page - f.key]
       ELSE NoneVal

\* MemoryImpl::lookup: Some(MemoryLookup { item, offset }) or None; item is
\* given by its key
lookup(pg, page) ==
  LET f == Floor(pg, page) IN
  IF f = NoneVal THEN NoneVal
  ELSE IF f.key + pg[f.key].size > page
       THEN [tag |-> "Some", item |-> f.key, offset |-> page - f.key]
       ELSE NoneVal

\* (addr & !PAGE_LOWER_MASK) >> PAGE_BITS
PageOf(addr) == (addr - (addr % (PAGE_LOWER_MASK + 1))) \div (2 ^ PAGE_BITS)

\* MemoryImpl::is_mapped
is_mapped(pg, addr) == lookup(pg, PageOf(addr)) # NoneVal

\* MemoryImpl::map_memory: BTreeMap::insert at addr >> PAGE_BITS
map_memory(pg, addr, n, ro) ==
  LET key == addr \div (2 ^ PAGE_BITS)
  IN  [k \in (DOMAIN pg) \cup {key} |-> IF k = key THEN NormalSpan(n, ro) ELSE pg[k]]

\* <MemoryImpl as Memory>::read up to return, panic or handler entry:
\* [pages, res, key, off]
MemRead(pg, T, addr) ==
  LET lk == lookup(pg, PageOf(addr)) IN
  IF lk = NoneVal
  THEN [pages |-> pg, res |-> Panic("Unmapped memory access"), key |-> -1, off |-> 0]
  ELSE LET r == KindRead(pg[lk.item], T, lk.offset + (addr % (PAGE_LOWER_MASK + 1)))
       IN  [pages |-> [pg EXCEPT ![lk.item] = r.span], res |-> r.res,
            key |-> lk.item, off |-> r.off]

\* a write that refuses a span flagged read-only
MemWrite_Enforcing(pg, T, addr, value) ==
  LET lk == lookup(pg, PageOf(addr)) IN
  IF lk = NoneVal
  THEN [pages |-> pg, res |-> Panic("Unmapped memory access"), key |-> -1, off |-> 0]
  ELSE IF pg[lk.item].read_only
       THEN [pages |-> pg, res |-> Panic("Write to read-only memory"),
             key |-> lk.item, off |-> 0]
       ELSE LET r == KindWrite(pg[lk.item], T,
                               lk.offset + (addr % (PAGE_LOWER_MASK + 1)), value)
            IN  [pages |-> [pg EXCEPT ![lk.item] = r.span], res |-> r.res,
                 key |-> lk.item, off |-> r.off]

\* <MemoryImpl as Memory>::write, likewise
MemWrite(pg, T, addr, value) ==
  LET lk == lookup(pg, PageOf(addr)) IN
  IF lk = NoneVal
  THEN [pages |-> pg, res |-> Panic("Unmapped memory access"), key |-> -1, off |-> 0]
  ELSE LET r == KindWrite(pg[lk.item], T, lk.offset + (addr % (PAGE_LOWER_MASK + 1)),
                          value)
       IN  [pages |-> [pg EXCEPT ![lk.item] = r.span], res |-> r.res,
            key |-> lk.item, off |-> r.off]

\* <MemoryImpl as Memory>::is_read_only
MemIsReadOnly(pg, addr) ==
  LET lk == lookup(pg, PageOf(addr)) IN
  IF lk = NoneVal
  THEN Panic("called Option::unwrap on a None value")
  ELSE Ok(pg[lk.item].read_only)

\* ------------------------------------------------------------ tick budget
\* std::u64::MAX, at the width of the model
U64_MAX == 2 ^ TickBits - 1

\* u64::wrapping_sub
saturating_sub_Wrapping(a, b) == (a - b) % (2 ^ TickBits)

\* u64::saturating_sub
saturating_sub(a, b) == IF b > a THEN 0 ELSE a - b

\* ------------------------------------------------------------------ state
VARIABLES
  pages,    \* MemoryImpl.pages: page index -> PageSpan
  stack,    \* MMIO handler invocations that have not returned, innermost last
  last,     \* the most recent call on the address space: its kind, type and
            \* outcome, and the arguments of a call that changes the space
  nwrites,  \* write calls made so far
  passed,   \* for each registered span, the read_only argument of its map call
  ticks,    \* Context.ticks
  debited,  \* sum of the arguments of all add_ticks calls so far
  query,    \* the latest get_ticks_remaining: what it returned, and the sum
            \* debited before it
  codec,    \* the latest Primitive::write and the Primitive::read of its window
  gen,      \* Executors constructed so far; the current one is number gen
  phase,    \* where control is for the current Executor
  execs,    \* for each Executor: its Context, its Jit and its Handlers
  views,    \* the live Ref / RefMut guards of the JitContext in scope
  event,    \* the latest callback or JitContext operation and its outcome
  coprocs,  \* the coprocessor capability objects of the current Executor
  compiled, \* the coprocessor instruction the engine has compiled last
  xfer      \* the latest coprocessor register transfer the engine executed

vars == << pages, stack, last, nwrites, passed, ticks, debited, query, codec,
           gen, phase, execs, views, event, coprocs, compiled, xfer >>

memVars == << pages, stack, last, nwrites, passed >>

tickVars == << ticks, debited, query >>

codecVars == << codec >>

execVars == << gen, phase, execs, views, event >>

cpVars == << coprocs, compiled, xfer >>

\* ----------------------------------------------------------------- inputs
\* in-page byte offsets used by accesses: aligned, misaligned, last byte
Offsets == {0, 3, PAGE_SIZE - 1}

AccessAddrs == {p * PAGE_SIZE + o : p \in 0..MaxPage, o \in Offsets}

\* map addresses: page 0 at its start, the other pages at a misaligned address
MapAddrs == {p * PAGE_SIZE + 5 * p : p \in 0..MaxPage}

Sizes == 0..MaxSize

\* the scalar of n bytes whose digits are s+1, s+2, .., s+n
Pat(n, s) == [j \in 1..n |-> s + j]

Values(T) ==
  IF T \in Scalars
  THEN {Pat(ScalarSize(T), 16)}
  ELSE {<< Pat(ScalarSize(Elem(T)), 16), Pat(ScalarSize(Elem(T)), 32) >>}

\* what an MMIO handler may leave in a read window of n bytes
HandlerBytes(n) == {Pat(n, 64)}

\* --------------------------------------------------------------- actions
Call(op, T, addr, val, res) ==
  [op |-> op, T |-> T, addr |-> addr, val |-> val, res |-> res]

\* the record of a read or of a query: its address is not kept
Query(op, T, res) == Call(op, T, -1, "-", res)

\* an MMIO handler invocation in progress: h.read(off, window) or
\* h.write(off, window) on the handler of the span at key, for an access of type T
Frame(op, T, key, off, w) ==
  [op |-> op, T |-> T, key |-> key, off |-> off, window |-> w]

\* the call stack after a call with outcome res: a panic unwinds every
\* frame, an entered handler adds one
StackAfter(res, frame) ==
  IF res.tag = "pending" THEN Append(stack, frame)
  ELSE IF res.tag = "panic" THEN << >>
  ELSE stack

\* nothing encoded yet
NoCodec ==
  [step |-> "idle", T |-> "-", val |-> << >>, window |-> << >>, out |-> << >>]

\* what Executor::new leaves: the Context boxed and leaked once, the Jit
\* constructed over it; svc tells whether H overrides handle_svc
NewExecutor(svc) ==
  [context |-> "live", made |-> 1, freed |-> 0, jit |-> "live", svc |-> svc]

\* a callback or a JitContext operation and its outcome
Event(name, res) == [name |-> name, res |-> res]

\* MemoryImpl::new() and Executor::new
Init ==
  /\ pages = [k \in {} |-> 0]
  /\ stack = << >>
  /\ last = Query("new", "-", Ok("unit"))
  /\ nwrites = 0
  /\ passed = [k \in {} |-> FALSE]
  /\ ticks = U64_MAX
  /\ debited = 0
  /\ query = [asked |-> FALSE, val |-> 0, debited |-> 0]
  /\ codec = NoCodec
  /\ gen = 1
  /\ phase = "idle"
  /\ execs = << NewExecutor("default") >>
  /\ views = << >>
  /\ event = Event("new", Ok("unit"))
  /\ coprocs = [k \in {} |-> 0]
  /\ compiled = NoneVal
  /\ xfer = NoneVal

\* mem.map_memory(addr, n, ro); needs &mut MemoryImpl, so no handler is active
MapMemory(addr, n, ro) ==
  /\ stack = << >>
  /\ pages' = map_memory(pages, addr, n, ro)
  /\ last' = Call("map", "-", addr, << n, ro >>, Ok("unit"))
  /\ passed' = [k \in DOMAIN pages' |-> IF k = PageOf(addr) THEN ro ELSE passed[k]]
  /\ UNCHANGED << stack, nwrites >>
  /\ UNCHANGED << tickVars, codecVars, execVars, cpVars >>

\* mem.read::<T>(addr), from the host or from inside an MMIO handler
Read(T, addr) ==
  LET r == MemRead(pages, T, addr) IN
  /\ pages' = r.pages
  /\ stack' = StackAfter(r.res, Frame("read", T, r.key, r.off, [i \in 1..SIZE(T) |-> 0]))
  /\ last' = Query("read", T, r.res)
  /\ UNCHANGED << nwrites, passed >>
  /\ UNCHANGED << tickVars, codecVars, execVars, cpVars >>

\* mem.write::<T>(addr, v), from the host or from inside an MMIO handler
Write(T, addr, v) ==
  LET r == MemWrite(pages, T, addr, v) IN
  /\ nwrites < MaxWrites
  /\ nwrites' = nwrites + 1
  /\ pages' = r.pages
  /\ stack' = StackAfter(r.res, Frame("write", T, r.key, r.off, PrimWrite(T, v)))
  /\ last' = Call("write", T, addr, v, r.res)
  /\ UNCHANGED passed
  /\ UNCHANGED << tickVars, codecVars, execVars, cpVars >>

\* mem.is_read_only(addr)
IsReadOnly(addr) ==
  LET res == MemIsReadOnly(pages, addr) IN
  /\ last' = Query("is_read_only", "-", res)
  /\ stack' = StackAfter(res, << >>)
  /\ UNCHANGED << pages, nwrites, passed >>
  /\ UNCHANGED << tickVars, codecVars, execVars, cpVars >>

NextMem ==
  \/ \E addr \in MapAddrs, n \in Sizes, ro \in BOOLEAN : MapMemory(addr, n, ro)
  \/ \E T \in Prims, addr \in AccessAddrs : Read(T, addr)
  \/ \E T \in Prims, addr \in AccessAddrs : \E v \in Values(T) : Write(T, addr, v)
  \/ \E addr \in AccessAddrs : IsReadOnly(addr)

\* the address space as the crate builds it: Normal spans only
SpecMem == Init /\ [][NextMem]_vars

\* map_io(addr, n, handler, ro): as map_memory, with an MMIO span
map_io(pg, addr, n, ro) ==
  LET key == addr \div (2 ^ PAGE_BITS)
  IN  [k \in (DOMAIN pg) \cup {key} |-> IF k = key THEN MMIOSpan(n, ro) ELSE pg[k]]

MapIO(addr, n, ro) ==
  /\ stack = << >>
  /\ pages' = map_io(pages, addr, n, ro)
  /\ last' = Call("map_io", "-", addr, << n, ro >>, Ok("unit"))
  /\ passed' = [k \in DOMAIN pages' |-> IF k = PageOf(addr) THEN ro ELSE passed[k]]
  /\ UNCHANGED << stack, nwrites >>
  /\ UNCHANGED << tickVars, codecVars, execVars, cpVars >>

\* src after h.read(offset, &mut src[..T::SIZE]) on src = [0u8; 8]
ReadSrc(bytes) == [i \in 1..8 |-> IF i <= Len(bytes) THEN bytes[i] ELSE 0]

\* what PageSpanKind::read / write returns once the handler has returned
AfterHandler(f, bytes) ==
  IF f.op = "read" THEN Ok(PrimRead(f.T, ReadSrc(bytes))) ELSE Ok("unit")

\* the innermost MMIO handler returns: handler.set(Some(h)), then the
\* access that entered it returns
HandlerReturn(bytes) ==
  /\ stack # << >>
  /\ LET f == stack[Len(stack)] IN
       /\ Len(bytes) = SIZE(f.T)
       /\ pages' = [pages EXCEPT ![f.key].handler = "Some"]
       /\ last' = Query(f.op, f.T, AfterHandler(f, bytes))
  /\ stack' = SubSeq(stack, 1, Len(stack) - 1)
  /\ UNCHANGED << nwrites, passed >>
  /\ UNCHANGED << tickVars, codecVars, execVars, cpVars >>

\* addresses accessed in the presence of MMIO spans
IOAddrs == {p * PAGE_SIZE + 3 : p \in 0..MaxPage}

NextMMIO ==
  \/ \E addr \in MapAddrs, n \in Sizes, ro \in BOOLEAN : MapIO(addr, n, ro)
  \/ \E T \in Prims, addr \in IOAddrs : Read(T, addr)
  \/ \E T \in Prims, addr \in IOAddrs : \E v \in Values(T) : Write(T, addr, v)
  \/ \E addr \in IOAddrs : IsReadOnly(addr)
  \/ \E n \in {1, 2, 4, 8} : \E bytes \in HandlerBytes(n) : HandlerReturn(bytes)

\* an address space of MMIO spans whose handlers access the space themselves
SpecMMIO == Init /\ [][NextMMIO]_vars

\* ------------------------------------------------------ tick callbacks
\* the largest sum of debits followed in one behaviour
MaxDebited == 2 * U64_MAX + 1

\* Context::add_ticks
AddTicks(n) ==
  /\ debited + n <= MaxDebited
  /\ ticks' = saturating_sub(ticks, n)
  /\ debited' = debited + n
  /\ UNCHANGED query
  /\ UNCHANGED << memVars, codecVars, execVars, cpVars >>

\* Context::get_ticks_remaining
GetTicksRemaining ==
  /\ query' = [asked |-> TRUE, val |-> ticks, debited |-> debited]
  /\ UNCHANGED << ticks, debited >>
  /\ UNCHANGED << memVars, codecVars, execVars, cpVars >>

NextTicks ==
  \/ \E n \in 0..U64_MAX : AddTicks(n)
  \/ GetTicksRemaining

\* the tick callbacks of one Execution Context
SpecTicks == Init /\ [][NextTicks]_vars

\* ------------------------------------------------- the Primitive codec alone
\* the values encoded: for each seed s the scalar with digits s+1 .. s+n
CodecSeeds == {60 * s : s \in 0..MaxSeed}

CodecValues(T) ==
  IF T \in Scalars
  THEN {Pat(ScalarSize(T), s) : s \in CodecSeeds}
  ELSE {<< Pat(ScalarSize(Elem(T)), s), Pat(ScalarSize(Elem(T)), t) >> :
          s \in CodecSeeds, t \in CodecSeeds}

\* v.write(&mut b) on a window b of T::SIZE bytes
PrimitiveWrite(T, v) ==
  /\ codec' = [step |-> "encoded", T |-> T, val |-> v,
               window |-> PrimWrite(T, v), out |-> << >>]
  /\ UNCHANGED << memVars, tickVars, execVars, cpVars >>

\* T::read(&b) of the window written last
PrimitiveRead ==
  /\ codec.step = "encoded"
  /\ codec' = [codec EXCEPT !.step = "decoded",
                            !.out = PrimRead(codec.T, codec.window)]
  /\ UNCHANGED << memVars, tickVars, execVars, cpVars >>

NextCodec ==
  \/ \E T \in Prims : \E v \in CodecValues(T) : PrimitiveWrite(T, v)
  \/ PrimitiveRead

\* encoding and decoding of values of every Primitive type
SpecCodec == Init /\ [][NextCodec]_vars

\* ---------------------------------------- Executor, callbacks, JitContext
\* H either keeps the default handle_svc or overrides it
SvcHandlers == {"default", "host"}

\* the guards of a JitContext: regs, extregs hand out a Ref; regs_mut,
\* extregs_mut a RefMut
ViewKinds == {"regs", "regs_mut", "extregs", "extregs_mut"}

\* the operations that borrow the RefCell for the call only
ScalarOps == {"cpsr", "set_cpsr", "fpscr", "set_fpscr", "halt"}

\* the guard kinds taken with RefCell::borrow
Shared(k) == k \in {"regs", "extregs"}

\* the RefCell's borrow flag under the live guards vs: the number of Refs, or
\* -1 under a RefMut
BorrowFlag(vs) ==
  IF \E i \in 1..Len(vs) : ~Shared(vs[i]) THEN -1 ELSE Len(vs)

\* RefCell::borrow does not panic
borrow(vs) == BorrowFlag(vs) >= 0

\* RefCell::borrow_mut does not panic
borrow_mut(vs) == BorrowFlag(vs) = 0

\* the outcome of JitContext::regs / regs_mut / extregs / extregs_mut
Acquired(vs, kind) ==
  IF Shared(kind)
  THEN IF borrow(vs) THEN Ok("guard") ELSE Panic("already mutably borrowed")
  ELSE IF borrow_mut(vs) THEN Ok("guard") ELSE Panic("already borrowed")

\* the outcome of JitContext::cpsr / set_cpsr / fpscr / set_fpscr / halt
Accessed(vs) ==
  IF borrow(vs) THEN Ok("unit") ELSE Panic("already mutably borrowed")

\* a Drop that frees the Context before it releases the engine
DropFirst_FreesContext(e) == [e EXCEPT !.context = "freed", !.freed = @ + 1]

\* Drop for Executor, first statement: dynarmic_delete(self.jit)
DropFirst(e) == [e EXCEPT !.jit = "deleted"]

\* Drop for Executor, second statement: Box::from_raw(self.context)
DropSecond(e) == [e EXCEPT !.context = "freed", !.freed = @ + 1]

\* how a panic leaves a callback (an extern fn entered from the engine): the
\* process aborts, or the panic unwinds through the engine's frames and out
\* of run()
PanicExits == {"abort", "unwind"}

\* where control is after a panic in phase ph: a panic in host code that
\* holds a JitContext from Executor::context() unwinds to the host
AfterPanic(ph, exit) ==
  IF ph # "inspect" /\ exit = "abort" THEN "aborted" ELSE "idle"

\* the phase after an operation with outcome res
PhaseAfter(res, exit) == IF res.tag = "panic" THEN AfterPanic(phase, exit) ELSE phase

\* ------------------------------------------------- coprocessor capability
\* the slots of the table of 16 that the model registers objects in
CpSlots == {14, 15}

\* the capability objects of the model: one that keeps every default method,
\* one whose transfers are deferred callbacks, one whose transfers are direct
\* accesses to its cells (Cp15 of tests::it_works)
CpKinds == {"Default", "Deferred", "Direct"}

\* the Cell<u32> fields of a capability object
Cells == {0, 1}

Words == 0..MaxWord

\* the register-transfer operations of the table
TransferOps == {"get_one_word", "send_one_word", "get_two_words", "send_two_words"}

WordCount(op) == IF op \in {"get_one_word", "send_one_word"} THEN 1 ELSE 2

IsGet(op) == op \in {"get_one_word", "get_two_words"}

\* a table whose object was dropped when callbacks_from returned
callbacks_from_Dropped(kind) ==
  [kind |-> kind, cells |-> [c \in Cells |-> 0], state |-> "dropped", destroys |-> 0]

\* CoprocessorCallbacks::callbacks_from(Box<T>): this = Box::into_raw(coproc);
\* the object stays allocated and the table has no Drop
callbacks_from(kind) ==
  [kind |-> kind, cells |-> [c \in Cells |-> 0], state |-> "raw", destroys |-> 0]

\* the destroy routine of the table: Box::from_raw(this) is dropped
destroy(obj) == [obj EXCEPT !.state = "dropped", !.destroys = @ + 1]

\* a handle to a temporary that holds a copy of the cell
CellRef_Copy(slot, c) == [obj |-> -1, cell |-> c]

\* &self.tpidrurw: a &'jit Cell<u32> into the boxed object of the slot
CellRef(slot, c) == [obj |-> slot, cell |-> c]

\* the Cell a handle designates, read
Deref(cp, h) == cp[h.obj].cells[h.cell]

\* what the table's compile_get/send_one/two_word(s) returns for the object
\* of the slot: the trampoline forwards to the object's method
compile_transfer(cp, slot, op) ==
  CASE cp[slot].kind = "Default" -> NoneVal
    [] cp[slot].kind = "Deferred" -> [tag |-> "Callback", user_arg |-> slot]
    [] cp[slot].kind = "Direct" ->
         [tag |-> "Access", cells |-> [i \in 1..WordCount(op) |-> CellRef(slot, i - 1)]]

\* the cells of cp after the words vals are stored through the handles hs
StoreThrough(cp, hs, vals) ==
  [s \in DOMAIN cp |->
     [cp[s] EXCEPT !.cells =
        [c \in Cells |->
           IF \E i \in 1..Len(hs) : hs[i] = CellRef(s, c)
           THEN vals[CHOOSE i \in 1..Len(hs) : hs[i] = CellRef(s, c)]
           ELSE cp[s].cells[c]]]]

\* a transfer of the model: via a handle or via the deferred callback
Transferred(via, vals) == [via |-> via, val |-> vals]

\* every registered object has been released
AllDestroyed(cp) == \A s \in DOMAIN cp : cp[s].destroys >= 1

\* the words a send transfers
SendWords(op) ==
  IF WordCount(op) = 1 THEN {<< w >> : w \in Words}
  ELSE {<< w, MaxWord - w >> : w \in Words}

\* ------------------------------------------------------- bridge actions
\* Executor::new(handlers), after the previous Executor was dropped: the
\* Context is boxed with ticks = u64::MAX, make_coprocessors builds the table
\* of the slots in DOMAIN kinds, dynarmic_new constructs the Jit
ExecutorNew(svc, kinds) ==
  /\ phase = "dropped"
  /\ gen < MaxExecutors
  /\ gen' = gen + 1
  /\ execs' = Append(execs, NewExecutor(svc))
  /\ phase' = "idle"
  /\ views' = << >>
  /\ event' = Event("new", Ok("unit"))
  /\ coprocs' = [s \in DOMAIN kinds |-> callbacks_from(kinds[s])]
  /\ compiled' = NoneVal
  /\ xfer' = NoneVal
  /\ ticks' = U64_MAX
  /\ debited' = 0
  /\ query' = [asked |-> FALSE, val |-> 0, debited |-> 0]
  /\ UNCHANGED << memVars, codecVars >>

\* a run that begins wherever control is: inside a run, inside handle_svc,
\* or while a JitContext of Executor::context() is alive
Run_Unguarded ==
  /\ phase \in {"idle", "run", "svc", "inspect"}
  /\ phase' = "run"
  /\ event' = Event("run", Pending)
  /\ UNCHANGED << gen, execs, views >>
  /\ UNCHANGED << memVars, tickVars, codecVars, cpVars >>

\* Executor::run enters dynarmic_run; it takes &mut self, so no JitContext of
\* Executor::context() is alive
Run ==
  /\ phase = "idle"
  /\ phase' = "run"
  /\ event' = Event("run", Pending)
  /\ UNCHANGED << gen, execs, views >>
  /\ UNCHANGED << memVars, tickVars, codecVars, cpVars >>

\* dynarmic_run returns
RunReturn ==
  /\ phase = "run"
  /\ phase' = "idle"
  /\ event' = Event("run", Ok("unit"))
  /\ UNCHANGED << gen, execs, views >>
  /\ UNCHANGED << memVars, tickVars, codecVars, cpVars >>

\* the engine invokes Context::call_svc: a JitContext is built and handed to
\* handle_svc; the default handle_svc has an empty body and returns at once
CallSvc ==
  /\ phase = "run"
  /\ IF execs[gen].svc = "default"
     THEN /\ event' = Event("call_svc", Ok("unit"))
          /\ UNCHANGED phase
     ELSE /\ event' = Event("call_svc", Pending)
          /\ phase' = "svc"
  /\ views' = << >>
  /\ UNCHANGED << gen, execs >>
  /\ UNCHANGED << memVars, tickVars, codecVars, cpVars >>

\* the host's handle_svc returns: its JitContext and every guard taken from
\* it are dropped, call_svc returns to the engine
SvcReturn ==
  /\ phase = "svc"
  /\ phase' = "run"
  /\ views' = << >>
  /\ event' = Event("call_svc", Ok("unit"))
  /\ UNCHANGED << gen, execs >>
  /\ UNCHANGED << memVars, tickVars, codecVars, cpVars >>

\* the engine invokes Context::exception_raised: unimplemented!()
ExceptionRaised(exit) ==
  /\ phase = "run"
  /\ event' = Event("exception_raised", Panic("not implemented"))
  /\ phase' = AfterPanic(phase, exit)
  /\ UNCHANGED << gen, execs, views >>
  /\ UNCHANGED << memVars, tickVars, codecVars, cpVars >>

\* Executor::context(): a JitContext over a fresh RefCell
ContextBegin ==
  /\ phase = "idle"
  /\ phase' = "inspect"
  /\ views' = << >>
  /\ event' = Event("context", Ok("JitContext"))
  /\ UNCHANGED << gen, execs >>
  /\ UNCHANGED << memVars, tickVars, codecVars, cpVars >>

\* the scope of that JitContext ends: it and its guards are dropped
ContextEnd ==
  /\ phase = "inspect"
  /\ phase' = "idle"
  /\ views' = << >>
  /\ event' = Event("context", Ok("dropped"))
  /\ UNCHANGED << gen, execs >>
  /\ UNCHANGED << memVars, tickVars, codecVars, cpVars >>

\* JitContext::regs / regs_mut / extregs / extregs_mut; a panic unwinds and
\* drops every guard
Acquire(kind, exit) ==
  LET res == Acquired(views, kind) IN
  /\ phase \in {"svc", "inspect"}
  /\ res.tag = "ok" => Len(views) < MaxViews
  /\ views' = IF res.tag = "ok" THEN Append(views, kind) ELSE << >>
  /\ event' = Event(kind, res)
  /\ phase' = PhaseAfter(res, exit)
  /\ UNCHANGED << gen, execs >>
  /\ UNCHANGED << memVars, tickVars, codecVars, cpVars >>

\* the guard at position i goes out of scope
Release(i) ==
  /\ phase \in {"svc", "inspect"}
  /\ i \in 1..Len(views)
  /\ views' = [j \in 1..(Len(views) - 1) |-> IF j < i THEN views[j] ELSE views[j + 1]]
  /\ event' = Event("drop_guard", Ok("unit"))
  /\ UNCHANGED << gen, phase, execs >>
  /\ UNCHANGED << memVars, tickVars, codecVars, cpVars >>

\* JitContext::cpsr / set_cpsr / fpscr / set_fpscr / halt
Access(op, exit) ==
  LET res == Accessed(views) IN
  /\ phase \in {"svc", "inspect"}
  /\ views' = IF res.tag = "ok" THEN views ELSE << >>
  /\ event' = Event(op, res)
  /\ phase' = PhaseAfter(res, exit)
  /\ UNCHANGED << gen, execs >>
  /\ UNCHANGED << memVars, tickVars, codecVars, cpVars >>

\* Drop for Executor begins: dynarmic_delete(self.jit) is entered
DropBegin ==
  /\ phase = "idle"
  /\ phase' = "deleting"
  /\ execs' = [execs EXCEPT ![gen] = DropFirst(@)]
  /\ event' = Event("dynarmic_delete", Pending)
  /\ UNCHANGED << gen, views >>
  /\ UNCHANGED << memVars, tickVars, codecVars, cpVars >>

\* inside dynarmic_delete the engine invokes the destroy routine of a
\* registered table that it has not released yet
Destroy(slot) ==
  /\ phase = "deleting"
  /\ slot \in DOMAIN coprocs
  /\ coprocs[slot].destroys = 0
  /\ coprocs' = [coprocs EXCEPT ![slot] = destroy(@)]
  /\ event' = Event("destroy", Ok("unit"))
  /\ UNCHANGED << gen, phase, execs, views, compiled, xfer >>
  /\ UNCHANGED << memVars, tickVars, codecVars >>

\* dynarmic_delete returns, then Box::from_raw(self.context) frees the Context
DropEnd ==
  /\ phase = "deleting"
  /\ AllDestroyed(coprocs)
  /\ phase' = "dropped"
  /\ execs' = [execs EXCEPT ![gen] = DropSecond(@)]
  /\ event' = Event("drop", Ok("unit"))
  /\ UNCHANGED << gen, views >>
  /\ UNCHANGED << memVars, tickVars, codecVars, cpVars >>

NextExec ==
  \/ \E svc \in SvcHandlers : ExecutorNew(svc, [s \in {} |-> "Default"])
  \/ Run
  \/ RunReturn
  \/ CallSvc
  \/ SvcReturn
  \/ \E exit \in PanicExits : ExceptionRaised(exit)
  \/ ContextBegin
  \/ ContextEnd
  \/ \E kind \in ViewKinds, exit \in PanicExits : Acquire(kind, exit)
  \/ \E i \in 1..MaxViews : Release(i)
  \/ \E op \in ScalarOps, exit \in PanicExits : Access(op, exit)
  \/ DropBegin
  \/ DropEnd

\* Executors constructed, inspected, run and dropped one after the other, with
\* the callbacks the engine makes while it runs
SpecExec == Init /\ [][NextExec]_vars

\* --------------------------------------------------- coprocessor actions
\* while it compiles a block the engine asks the table of the slot for a
\* register-transfer operation
Compile(slot, op) ==
  /\ phase = "run"
  /\ slot \in DOMAIN coprocs
  /\ compiled' = [slot |-> slot, op |-> op,
                  out |-> compile_transfer(coprocs, slot, op), calls |-> 0]
  /\ event' = Event("compile", Ok(op))
  /\ UNCHANGED << gen, phase, execs, views, coprocs, xfer >>
  /\ UNCHANGED << memVars, tickVars, codecVars >>

\* the engine executes the compiled instruction through the handles of a
\* direct access: a get reads the cells, a send of vals stores into them
TransferDirect(vals) ==
  /\ phase = "run"
  /\ compiled # NoneVal
  /\ compiled.out.tag = "Access"
  /\ IF IsGet(compiled.op)
     THEN /\ xfer' = Transferred("access",
                       [i \in 1..Len(compiled.out.cells) |->
                          Deref(coprocs, compiled.out.cells[i])])
          /\ UNCHANGED coprocs
     ELSE /\ vals \in SendWords(compiled.op)
          /\ xfer' = Transferred("access", vals)
          /\ coprocs' = StoreThrough(coprocs, compiled.out.cells, vals)
  /\ event' = Event("transfer", Ok(compiled.op))
  /\ UNCHANGED << gen, phase, execs, views, compiled >>
  /\ UNCHANGED << memVars, tickVars, codecVars >>

\* the engine executes the compiled instruction by calling the RawCallback:
\* callback_handler_delegator runs H::handle on the object
TransferDeferred(vals) ==
  /\ phase = "run"
  /\ compiled # NoneVal
  /\ compiled.out.tag = "Callback"
  /\ compiled.calls < MaxCalls
  /\ vals \in SendWords(compiled.op)
  /\ compiled' = [compiled EXCEPT !.calls = @ + 1]
  /\ xfer' = Transferred("callback", vals)
  /\ event' = Event("transfer", Ok(compiled.op))
  /\ UNCHANGED << gen, phase, execs, views, coprocs >>
  /\ UNCHANGED << memVars, tickVars, codecVars >>

\* the capability object stores into one of its own cells
CellSet(slot, c, w) ==
  /\ phase \in {"idle", "run"}
  /\ slot \in DOMAIN coprocs
  /\ coprocs[slot].cells[c] # w
  /\ coprocs' = [coprocs EXCEPT ![slot].cells[c] = w]
  /\ event' = Event("cell_set", Ok("unit"))
  /\ UNCHANGED << gen, phase, execs, views, compiled, xfer >>
  /\ UNCHANGED << memVars, tickVars, codecVars >>

\* the tables make_coprocessors may return: none, or objects in some slots
Tables ==
  {[s \in {} |-> "Default"]}
    \cup {[s \in {15} |-> k] : k \in CpKinds}
    \cup {[s \in CpSlots |-> IF s = 15 THEN "Direct" ELSE k] : k \in CpKinds}

NextCoproc ==
  \/ \E kinds \in Tables : ExecutorNew("default", kinds)
  \/ Run
  \/ RunReturn
  \/ \E slot \in CpSlots, op \in TransferOps : Compile(slot, op)
  \/ \E vals \in SendWords("send_one_word") \cup SendWords("send_two_words") :
       TransferDirect(vals)
  \/ \E vals \in SendWords("send_one_word") \cup SendWords("send_two_words") :
       TransferDeferred(vals)
  \/ \E slot \in CpSlots, c \in Cells, w \in Words : CellSet(slot, c, w)
  \/ \E exit \in PanicExits : ExceptionRaised(exit)
  \/ DropBegin
  \/ \E slot \in CpSlots : Destroy(slot)
  \/ DropEnd

\* Executors whose Handlers register coprocessor capability objects
SpecCoproc == Init /\ [][NextCoproc]_vars

\* ================================================================ claims
\* pages that spans and accesses of the model can touch
CheckPages == 0..(MaxPage + MaxSize)

\* the registered spans whose range [start, start + size) holds page p
Containing(pg, p) == {k \in DOMAIN pg : k <= p /\ p < k + pg[k].size}

\* addr & ~(SIZE(T) - 1)
AlignAddr(addr, T) == addr - (addr % SIZE(T))

\* the little-endian bytes of a value: least-significant byte first, the
\* elements of an array in index order
LittleEndian(T, v) ==
  IF T \in Scalars
  THEN [i \in 1..SIZE(T) |-> ByteOf(v, i - 1)]
  ELSE [i \in 1..SIZE(T) |->
          IF i <= ScalarSize(Elem(T))
          THEN ByteOf(v[1], i - 1)
          ELSE ByteOf(v[2], i - 1 - ScalarSize(Elem(T)))]

\* the latest call was write<T>(A, v) and A resolves to a Normal span
WroteNormal ==
  /\ last.op = "write"
  /\ lookup(pages, PageOf(last.addr)) # NoneVal
  /\ pages[lookup(pages, PageOf(last.addr)).item].kind = "Normal"

\* C1: right after write<T>(A, v), for any type T and any address A that
\* resolves to a Normal span that is not read-only (in any of its pages), the
\* write has returned and read<T>(A) returns v.
C1_RoundTrip ==
  (WroteNormal /\ ~pages[lookup(pages, PageOf(last.addr)).item].read_only)
    => /\ last.res = Ok("unit")
       /\ MemRead(pages, last.T, last.addr).res = Ok(last.val)

\* a 16-byte value was written at a misaligned address of the second page of
\* a two-page span and reads back
C1_Witness ==
  /\ WroteNormal
  /\ ~pages[lookup(pages, PageOf(last.addr)).item].read_only
  /\ last.T = "u64x2"
  /\ last.addr % PAGE_SIZE = 3
  /\ lookup(pages, PageOf(last.addr)).offset = 1
  /\ MemRead(pages, last.T, last.addr).res = Ok(last.val)

\* C2: after write<T>(A, v) at a T-aligned address A of any page of a Normal
\* span, read<u8>(A + i) returns byte i of v, least-significant first, for
\* every i < SIZE(T), and read<T>(A) is the little-endian composition of the
\* bytes read at A .. A + SIZE(T) - 1.
C2_LittleEndianLayout ==
  (WroteNormal /\ last.addr % SIZE(last.T) = 0)
    => LET byte(i) == MemRead(pages, "u8", last.addr + i).res
       IN  /\ \A i \in 0..(SIZE(last.T) - 1) :
                byte(i) = Ok(<< LittleEndian(last.T, last.val)[i + 1] >>)
           /\ MemRead(pages, last.T, last.addr).res =
                Ok(PrimRead(last.T, [i \in 1..SIZE(last.T) |-> byte(i - 1).val[1]]))

\* the page range of a new span of n pages at key meets no registered span
Disjoint(pg, key, n) ==
  \A k \in DOMAIN pg : \A p \in CheckPages :
    ~(k <= p /\ p < k + pg[k].size /\ key <= p /\ p < key + n)

\* C3: after map(A0, N, _) whose range meets no registered span, an address
\* resolves to the new span iff its page lies in [P, P + N), P the page of A0,
\* and the lookup of every other address is what it was before.
C3_MapThenLookup ==
  [][(last'.op = "map" /\ Disjoint(pages, PageOf(last'.addr), last'.val[1]))
       => \A p \in CheckPages :
            LET key == PageOf(last'.addr)
                inNew == key <= p /\ p < key + last'.val[1]
                lk == lookup(pages', p)
            IN  /\ inNew <=> (lk # NoneVal /\ lk.item = key)
                /\ ~inNew => lk = lookup(pages, p)]_vars

\* C4: a map whose page range meets a registered span fails and leaves the
\* spans, their flags and their contents as they were.
C4_OverlapRejected ==
  [][(last'.op = "map" /\ ~Disjoint(pages, PageOf(last'.addr), last'.val[1]))
       => (last'.res.tag = "panic" /\ pages' = pages)]_vars

\* C5: every page lies in the range of at most one registered span, and
\* every page in the range of a span resolves to that span.
C5_NoOverlap ==
  \A p \in CheckPages :
    /\ Cardinality(Containing(pages, p)) <= 1
    /\ \A k \in Containing(pages, p) :
         lookup(pages, p) = [tag |-> "Some", item |-> k, offset |-> p - k]

\* C6: at an address that lies in no registered span (nothing mapped, below
\* or between the spans, just past a span's end) read, write and is_read_only
\* panic, return nothing and leave every span as it was.
C6_UnmappedFails ==
  \A addr \in AccessAddrs :
    Containing(pages, PageOf(addr)) = {}
      => /\ \A T \in Prims :
              /\ MemRead(pages, T, addr).res = Panic("Unmapped memory access")
              /\ MemRead(pages, T, addr).pages = pages
              /\ \A v \in Values(T) :
                   /\ MemWrite(pages, T, addr, v).res = Panic("Unmapped memory access")
                   /\ MemWrite(pages, T, addr, v).pages = pages
         /\ MemIsReadOnly(pages, addr).tag = "panic"

\* a read panicked on an unmapped address while a span is registered and
\* holds written bytes
C6_Witness ==
  /\ last.op = "read"
  /\ last.res = Panic("Unmapped memory access")
  /\ \E k \in DOMAIN pages : pages[k].size > 0 /\ pages[k].backing.nz # << >>
  /\ \E addr \in AccessAddrs :
       /\ Containing(pages, PageOf(addr)) = {}
       /\ \E k \in DOMAIN pages : k + pages[k].size = PageOf(addr)

\* C7: at every mapped address, read<T>(A) returns what read<T>(A & ~(SIZE-1))
\* returns and write<T>(A, v) changes memory as write<T>(A & ~(SIZE-1), v) does.
C7_MisalignedAsAligned ==
  \A addr \in AccessAddrs, T \in Prims :
    is_mapped(pages, addr)
      => /\ MemRead(pages, T, addr).res = MemRead(pages, T, AlignAddr(addr, T)).res
         /\ \A v \in Values(T) :
              MemWrite(pages, T, addr, v).pages =
                MemWrite(pages, T, AlignAddr(addr, T), v).pages

\* C8: is_read_only(A) is the flag passed at the registration of each span
\* whose range holds A, and no read or write changes what it returns.
C8_ReadOnlyAsRegistered ==
  /\ [](\A p \in CheckPages : \A k \in Containing(pages, p) :
          MemIsReadOnly(pages, p * PAGE_SIZE) = Ok(passed[k]))
  /\ [][last'.op \in {"read", "write"}
          => \A p \in CheckPages :
               MemIsReadOnly(pages', p * PAGE_SIZE) = MemIsReadOnly(pages, p * PAGE_SIZE)]_vars

\* max(0, x)
Max0(x) == IF x < 0 THEN 0 ELSE x

\* C9: the counter starts at the maximum budget B; after debits n1..nk the
\* counter, and what a query made then returned, is max(0, B - (n1+..+nk));
\* it stays within 0..B, and a query leaves it as it is.
C9_TickBudget ==
  /\ ticks = Max0(U64_MAX - debited)
  /\ ticks \in 0..U64_MAX
  /\ query.asked => query.val = Max0(U64_MAX - query.debited)
  /\ (query.asked /\ query.debited = debited) => query.val = ticks

\* a query answered 0 after debits that exceed the budget, and another debit
\* followed it
C9_Witness ==
  /\ query.asked
  /\ query.debited > U64_MAX
  /\ query.val = 0
  /\ debited > query.debited
  /\ ticks = 0

\* the spans whose MMIO handler has been entered and has not returned
Entered == {stack[i].key : i \in 1..Len(stack)}

\* C10: an MMIO handler is entered at most once at a time, and while it is
\* entered every read or write that resolves to its span panics with the
\* reentrancy message instead of entering it or returning a value.
C10_NoReentry ==
  /\ \A i, j \in 1..Len(stack) : i # j => stack[i].key # stack[j].key
  /\ \A addr \in IOAddrs :
       LET lk == lookup(pages, PageOf(addr)) IN
       (lk # NoneVal /\ lk.item \in Entered)
         => \A T \in Prims :
              /\ MemRead(pages, T, addr).res = Panic("Attempt to reentrantly read IO page")
              /\ \A v \in Values(T) :
                   MemWrite(pages, T, addr, v).res =
                     Panic("Attempt to reentrantly write IO page")

\* a read made inside an MMIO handler of the handler's own span panicked
C10_Witness ==
  /\ last.op = "read"
  /\ last.res = Panic("Attempt to reentrantly read IO page")
  /\ stack = << >>
  /\ \E k \in DOMAIN pages : pages[k].kind = "MMIO" /\ pages[k].handler = "None"

\* C11: a call_svc callback made while H keeps the default handle_svc, and
\* every exception_raised callback, ends in a panic, and control is not back
\* in the engine afterwards.
C11_MissingHandlerFatal ==
  /\ (event.name = "call_svc" /\ execs[gen].svc = "default")
       => (event.res.tag = "panic" /\ phase # "run")
  /\ event.name = "exception_raised"
       => (event.res.tag = "panic" /\ phase # "run")

\* C12: every Executor has made its Context once and freed it at most once,
\* and exactly once when it is dropped; a freed Context belongs to a Jit
\* that dynarmic_delete has released; and while the engine runs or is inside a
\* callback, the Context and the Jit of the Executor are live.
C12_ContextLifetime ==
  /\ \A i \in 1..Len(execs) :
       /\ execs[i].made = 1
       /\ execs[i].freed <= 1
       /\ execs[i].context = "freed" <=> execs[i].freed = 1
       /\ execs[i].freed = 1 => execs[i].jit = "deleted"
       /\ i < gen => execs[i].freed = 1
  /\ phase \in {"run", "svc"}
       => (execs[gen].context = "live" /\ execs[gen].jit = "live")
  /\ phase = "dropped" => execs[gen].freed = 1

\* two Executors were constructed and dropped, the second one with a host
\* handle_svc; each Context was freed once, after its Jit was deleted
C12_Witness ==
  /\ gen = 2
  /\ phase = "dropped"
  /\ execs[2].svc = "host"
  /\ \A i \in 1..2 :
       execs[i].made = 1 /\ execs[i].freed = 1 /\ execs[i].jit = "deleted"

C14_OneViewAtATime ==
  /\ Len(views) <= 1
  /\ views # << >>
       => \A kind \in ViewKinds : Acquired(views, kind).tag = "panic"
  /\ phase \notin {"svc", "inspect"} => views = << >>

\* the address space with every read_only flag set to ro
WithFlags(pg, ro) == [k \in DOMAIN pg |-> [pg[k] EXCEPT !.read_only = ro]]

\* C15: a write<T>(A, v) at an address that resolves to a Normal span flagged
\* read-only returns and read<T>(A) then returns v; read and write do, and
\* leave behind, the same whether the flags are set or cleared, while
\* is_read_only returns the flag of the span the address resolves to.
C15_ReadOnlyAdvisory ==
  /\ (WroteNormal /\ pages[lookup(pages, PageOf(last.addr)).item].read_only)
       => /\ last.res = Ok("unit")
          /\ MemRead(pages, last.T, last.addr).res = Ok(last.val)
  /\ \A addr \in AccessAddrs :
       LET clear == WithFlags(pages, FALSE) IN
       (\E k \in DOMAIN pages : pages[k].read_only)
         => /\ \A T \in Prims :
                 /\ MemRead(pages, T, addr).res = MemRead(clear, T, addr).res
                 /\ \A v \in Values(T) :
                      LET w == MemWrite(pages, T, addr, v)
                          c == MemWrite(clear, T, addr, v)
                      IN  /\ w.res = c.res
                          /\ w.key = c.key
                          /\ w.key \in DOMAIN pages
                               => w.pages[w.key].backing = c.pages[c.key].backing
            /\ is_mapped(pages, addr)
                 => /\ MemIsReadOnly(clear, addr) = Ok(FALSE)
                    /\ MemIsReadOnly(WithFlags(pages, TRUE), addr) = Ok(TRUE)

\* a pair of u32 was written to the second page of a span flagged read-only,
\* reads back, and is_read_only answers true there
C15_Witness ==
  /\ WroteNormal
  /\ pages[lookup(pages, PageOf(last.addr)).item].read_only
  /\ last.T = "u32x2"
  /\ lookup(pages, PageOf(last.addr)).offset = 1
  /\ last.res = Ok("unit")
  /\ MemRead(pages, last.T, last.addr).res = Ok(last.val)
  /\ MemIsReadOnly(pages, last.addr) = Ok(TRUE)

C17_ArrayCodec ==
  /\ (codec.step # "idle" /\ codec.T \notin Scalars)
       => /\ SIZE(codec.T) = 2 * SIZE(Elem(codec.T))
          /\ ALIGN(codec.T) = SIZE(codec.T) - 1
          /\ Len(codec.window) = SIZE(codec.T)
          /\ codec.window = LittleEndian(Elem(codec.T), codec.val[1])
                              \o LittleEndian(Elem(codec.T), codec.val[2])
  /\ (codec.step # "idle" /\ codec.T \in Scalars)
       => codec.window = LittleEndian(codec.T, codec.val)
  /\ codec.step = "decoded" => codec.out = codec.val

\* a pair of u64 with different elements was encoded into 16 bytes and decoded
C17_Witness ==
  /\ codec.step = "decoded"
  /\ codec.T = "u64x2"
  /\ codec.val[1] # codec.val[2]
  /\ Len(codec.window) = 16
  /\ codec.window[1] = codec.val[1][8]
  /\ codec.window[9] = codec.val[2][8]
  /\ codec.out = codec.val

\* the value of type T whose bytes are all zero
Zero(T) ==
  IF T \in Scalars
  THEN [j \in 1..ScalarSize(T) |-> 0]
  ELSE << [j \in 1..ScalarSize(Elem(T)) |-> 0], [j \in 1..ScalarSize(Elem(T)) |-> 0] >>

\* addresses in every page a span of the model can cover
ProbeAddrs == {p * PAGE_SIZE + o : p \in CheckPages, o \in Offsets}

\* C18: right after map(A0, N, _), a read of any type at any address that
\* resolves to the span just registered returns zero.
C18_ZeroAfterMap ==
  last.op = "map"
    => \A addr \in ProbeAddrs, T \in Prims :
         LET lk == lookup(pages, PageOf(addr)) IN
         (lk # NoneVal /\ lk.item = PageOf(last.addr))
           => MemRead(pages, T, addr).res = Ok(Zero(T))

\* a two-page span was mapped after a write had left bytes in another span, and
\* a 16-byte read in its second page returns zero
C18_Witness ==
  /\ last.op = "map"
  /\ last.val[1] = 2
  /\ nwrites = 1
  /\ \E k \in DOMAIN pages : pages[k].backing.nz # << >>
  /\ \E addr \in ProbeAddrs :
       /\ lookup(pages, PageOf(addr)) =
            [tag |-> "Some", item |-> PageOf(last.addr), offset |-> 1]
       /\ MemRead(pages, "u64x2", addr).res = Ok(Zero("u64x2"))

\* byte addresses at the start of every page a span of the model can cover
ProbeBytes == {p * PAGE_SIZE + o : p \in CheckPages, o \in {0, 1, 3, 4}}

\* the backing byte that byte address B resolves to: span and offset
ByteCell(pg, B) ==
  LET r == MemRead(pg, "u8", B) IN << r.key, r.off >>

\* C19: a write<T>(A, v) that returns leaves read<u8>(B) as it was at every
\* mapped byte address B outside [A & ~(SIZE-1), A & ~(SIZE-1) + SIZE); and two
\* different mapped byte addresses never resolve to the same backing byte.
C19_NoAliasing ==
  /\ \A addr \in AccessAddrs, T \in Prims : \A v \in Values(T) :
       LET w == MemWrite(pages, T, addr, v)
           lo == AlignAddr(addr, T)
       IN  w.res = Ok("unit")
             => \A B \in ProbeBytes :
                  (is_mapped(pages, B) /\ ~(lo <= B /\ B < lo + SIZE(T)))
                    => MemRead(w.pages, "u8", B).res = MemRead(pages, "u8", B).res
  /\ \A B1, B2 \in ProbeBytes :
       (B1 # B2 /\ is_mapped(pages, B1) /\ is_mapped(pages, B2))
         => ByteCell(pages, B1) # ByteCell(pages, B2)

\* C20: a read or write of any type T at an address that resolves to an MMIO
\* span whose handler is in place enters the handler, with the rounded offset
\* and a window of SIZE(T) bytes; the window handed over by a write is the
\* little-endian encoding of the value, and the value a read returns is the
\* little-endian decoding of the bytes the handler left.
C20_MMIODispatch ==
  /\ \A addr \in IOAddrs, T \in Prims :
       LET lk == lookup(pages, PageOf(addr)) IN
       (lk # NoneVal /\ pages[lk.item].kind = "MMIO" /\ pages[lk.item].handler = "Some")
         => /\ MemRead(pages, T, addr).res = Pending
            /\ MemRead(pages, T, addr).off =
                 AlignDown(lk.offset + (addr % PAGE_SIZE), T)
            /\ \A v \in Values(T) : MemWrite(pages, T, addr, v).res = Pending
  /\ \A i \in 1..Len(stack) : Len(stack[i].window) = SIZE(stack[i].T)
  /\ (last.op = "write" /\ last.res = Pending)
       => stack[Len(stack)].window = LittleEndian(last.T, last.val)
  /\ (last.op = "read" /\ last.res.tag = "ok")
       => \E bytes \in HandlerBytes(SIZE(last.T)) :
            LittleEndian(last.T, last.res.val) = bytes

\* C21: the backing of every span that no access in progress has entered is
\* in place (the handler of an MMIO span is checked in, the bytes of a Normal
\* span have their full length), and a read or write panics with the
\* reentrancy message only at an address whose span an access in progress has
\* entered.
C21_GuardCheckIn ==
  /\ \A k \in DOMAIN pages :
       k \notin Entered
         => IF pages[k].kind = "MMIO"
            THEN pages[k].handler = "Some"
            ELSE pages[k].backing.len = pages[k].size * PAGE_SIZE
  /\ \A addr \in IOAddrs, T \in Prims :
       LET lk == lookup(pages, PageOf(addr)) IN
       /\ MemRead(pages, T, addr).res = Panic("Attempt to reentrantly read IO page")
            => lk.item \in Entered
       /\ \A v \in Values(T) :
            MemWrite(pages, T, addr, v).res = Panic("Attempt to reentrantly write IO page")
              => lk.item \in Entered

\* a RefMut guard is among the live guards
WriterLive == \E i \in 1..Len(views) : ~Shared(views[i])

\* C22: a RefMut guard of a JitContext is the only live guard, and while it
\* is live every guard acquisition and every cpsr / set_cpsr / fpscr /
\* set_fpscr / halt panics; and while a Ref guard is live, regs_mut and
\* extregs_mut panic and no set_cpsr, set_fpscr or halt returns.
C22_SingleWriter ==
  /\ WriterLive
       => /\ Len(views) = 1
          /\ \A kind \in ViewKinds : Acquired(views, kind).tag = "panic"
          /\ Accessed(views).tag = "panic"
  /\ (views # << >> /\ ~WriterLive)
       => \A kind \in ViewKinds : ~Shared(kind) => Acquired(views, kind).tag = "panic"
  /\ (event.name \in {"set_cpsr", "set_fpscr", "halt"} /\ event.res.tag = "ok")
       => views = << >>

\* C23: a run of an Executor begins only while control is with the host, no
\* earlier run of it is in progress and no JitContext or guard is alive; the
\* engine gets control otherwise only when handle_svc returns to the run that
\* called it, and that run ends only by returning or panicking.
C23_NoReentrantRun ==
  [][/\ event' = Event("run", Pending) => (phase = "idle" /\ views = << >>)
     /\ (phase' = "run" /\ phase # "run")
          => \/ phase = "idle" /\ event' = Event("run", Pending)
             \/ phase = "svc" /\ event' = Event("call_svc", Ok("unit"))
     /\ (phase \in {"svc", "inspect"} /\ phase' \in {"svc", "inspect"})
          => phase' = phase]_vars

\* the second Executor, whose Handlers override handle_svc, has begun a run
C23_Witness ==
  /\ gen = 2
  /\ execs[gen].svc = "host"
  /\ phase = "run"
  /\ event = Event("run", Pending)
  /\ views = << >>

====
